---- MODULE Spec2Model ----
(***************************************************************************)
(* Model of src/src/ebay-crawler.go: the page loop of main, the item       *)
(* goroutines (processItemNode) joined by a sync.WaitGroup, and the tree   *)
(* search helpers they are built from.                                     *)
(*                                                                         *)
(* Strings are sequences of atoms.  An atom is a TLA+ string standing for  *)
(* a piece of text that the program never splits ("s-item", "__link",      *)
(* "itm/", one digit, one separator).  strings.Contains and the two        *)
(* regular expressions are computed over these sequences.                  *)
(*                                                                         *)
(* A *html.Node is a path (the child indices from the document root) into  *)
(* the parsed tree; a nil pointer is Nil and a pointer to path p is        *)
(* Ptr(p).                                                                 *)
(***************************************************************************)
EXTENDS Integers, Sequences, FiniteSets, TLC

\* ------------------------------------------------------------------ bounds
MaxItems == 2
MaxFetches == 2
MaxHrefLen == 4
MaxAttrs == 2

\* ----------------------------------------------------------------- strings
Nil == <<>>
Ptr(p) == <<p>>

EmptyString == <<>>

\* A local variable: Body is evaluated with its parameter bound to the value
\* of val, which is computed once.
Bind(val, Body(_)) == CHOOSE result \in {Body(v) : v \in {val}} : TRUE

Digits == {"0", "1", "2", "3", "4", "5", "6", "7", "8", "9"}

PriceSeparators == {".", ","}

\* strings.Contains(s, substr)
Contains(s, substr) ==
    \E k \in 1..(Len(s) + 1) :
        /\ k + Len(substr) - 1 <= Len(s)
        /\ SubSeq(s, k, k + Len(substr) - 1) = substr

\* First index >= k of s whose atom is not in class (Len(s)+1 when none):
\* the end of a greedy run of a character class.
RECURSIVE RunEnd(_, _, _)
RunEnd(s, k, class) ==
    IF k <= Len(s) /\ s[k] \in class THEN RunEnd(s, k + 1, class) ELSE k

\* regexp.MustCompile(priceRegEx).FindStringSubmatch(s) for
\* priceRegEx = \d+[\.,]*\d* : Nil when there is no match, else <<match>>.
\* The leftmost match starts at the first digit; each of the three parts is
\* greedy and nothing follows them, so no backtracking takes place.
PriceMatchAt(s, k) ==
    SubSeq(s, k, RunEnd(s, RunEnd(s, RunEnd(s, k, Digits), PriceSeparators), Digits) - 1)

priceRegExFind(s) ==
    LET starts == {k \in 1..Len(s) : s[k] \in Digits}
    IN  IF starts = {} THEN Nil
        ELSE LET k == CHOOSE m \in starts : \A n \in starts : m <= n
             IN  <<PriceMatchAt(s, k)>>

\* regexp.MustCompile(itemIDRegEx).FindStringSubmatch(s) for
\* itemIDRegEx = itm\/([0-9]+)\? : Nil when there is no match, else
\* <<match, group 1>>.  A match at k is the atom "itm/", one or more digits
\* and a literal "?"; the digit run is greedy and "?" is no digit.
ItemIDMatchesAt(s, k) ==
    /\ s[k] = "itm/"
    /\ RunEnd(s, k + 1, Digits) > k + 1
    /\ RunEnd(s, k + 1, Digits) <= Len(s)
    /\ s[RunEnd(s, k + 1, Digits)] = "?"

itemIDRegExFind(s) ==
    LET starts == {k \in 1..Len(s) : ItemIDMatchesAt(s, k)}
    IN  IF starts = {} THEN Nil
        ELSE LET k == CHOOSE m \in starts : \A n \in starts : m <= n
             IN  <<SubSeq(s, k, RunEnd(s, k + 1, Digits)),
                   SubSeq(s, k + 1, RunEnd(s, k + 1, Digits) - 1)>>

\* fmt.Sprintf("%d", n) for 0 <= n < 100
DigitOf(d) == CASE d = 0 -> "0" [] d = 1 -> "1" [] d = 2 -> "2" [] d = 3 -> "3"
                [] d = 4 -> "4" [] d = 5 -> "5" [] d = 6 -> "6" [] d = 7 -> "7"
                [] d = 8 -> "8" [] d = 9 -> "9"

SprintfD(n) == IF n < 10 THEN <<DigitOf(n)>> ELSE <<DigitOf(n \div 10), DigitOf(n % 10)>>

\* ------------------------------------------------------------------- trees
ElementNode == "ElementNode"
TextNode == "TextNode"
DocumentNode == "DocumentNode"

Attribute(key, val) == [Key |-> key, Val |-> val]

Element(tag, attr, children) ==
    [Type |-> ElementNode, Data |-> tag, Attr |-> attr, Children |-> children]

Text(s) == [Type |-> TextNode, Data |-> s, Attr |-> <<>>, Children |-> <<>>]

Document(children) ==
    [Type |-> DocumentNode, Data |-> "", Attr |-> <<>>, Children |-> children]

\* The node a path points to.
RECURSIVE NodeAt(_, _)
NodeAt(root, p) ==
    IF p = <<>> THEN root ELSE NodeAt(root.Children[Head(p)], Tail(p))

\* ------------------------------------------------------------ tree matcher
\* The attribute loop of findItemElementsByClass (lines 128-140), entered at
\* attribute k with the locals class and id: TRUE iff the node is appended.
RECURSIVE ItemAttrScan(_, _, _, _, _)
ItemAttrScan(attr, k, class, id, className) ==
    IF k > Len(attr) THEN FALSE
    ELSE LET a == attr[k]
             isClass == a.Key = "class" /\ Contains(a.Val, className)
             class1 == IF isClass THEN a.Val ELSE class
             id1 == IF ~isClass /\ a.Key = "id" /\ a.Val # EmptyString THEN a.Val ELSE id
         IN  IF class1 # EmptyString /\ id1 # EmptyString THEN TRUE
             ELSE ItemAttrScan(attr, k + 1, class1, id1, className)

\* findItemElementsByClass(node, elementType, className, itemList); p is the
\* path of node, so that the list holds pointers.  ItemChildrenScan is its
\* loop over the children (lines 143-145), entered at child c.
RECURSIVE findItemElementsByClass(_, _, _, _, _)
RECURSIVE ItemChildrenScan(_, _, _, _, _, _)
findItemElementsByClass(node, p, elementType, className, itemList) ==
    ItemChildrenScan(node, p, 1, elementType, className,
        IF /\ node.Type = ElementNode
           /\ node.Data = elementType
           /\ ItemAttrScan(node.Attr, 1, EmptyString, EmptyString, className)
        THEN Append(itemList, p)
        ELSE itemList)

ItemChildrenScan(node, p, c, elementType, className, itemList) ==
    IF c > Len(node.Children) THEN itemList
    ELSE ItemChildrenScan(node, p, c + 1, elementType, className,
             findItemElementsByClass(node.Children[c], Append(p, c),
                                     elementType, className, itemList))

\* findFirstElementByAttr(node, elementType, attrName, attrValue); p is the
\* path of node: Nil or Ptr(path of the node found).  FirstChildrenScan is
\* its loop over the children (lines 163-170), entered at child c.
RECURSIVE findFirstElementByAttr(_, _, _, _, _)
RECURSIVE FirstChildrenScan(_, _, _, _, _, _)
\* A search that looks at the children of a node ahead of the node.
findFirstChildrenFirst(node, p, elementType, attrName, attrValue) ==
    Bind(FirstChildrenScan(node, p, 1, elementType, attrName, attrValue),
         LAMBDA tempNode :
             IF tempNode # Nil THEN tempNode
             ELSE IF /\ node.Type = ElementNode
                     /\ node.Data = elementType
                     /\ \E k \in 1..Len(node.Attr) :
                           /\ node.Attr[k].Key = attrName
                           /\ Contains(node.Attr[k].Val, attrValue)
                  THEN Ptr(p)
                  ELSE Nil)

findFirstElementByAttr(node, p, elementType, attrName, attrValue) ==
    IF /\ node.Type = ElementNode
       /\ node.Data = elementType
       /\ \E k \in 1..Len(node.Attr) :
             node.Attr[k].Key = attrName /\ Contains(node.Attr[k].Val, attrValue)
    THEN Ptr(p)
    ELSE FirstChildrenScan(node, p, 1, elementType, attrName, attrValue)

FirstChildrenScan(node, p, c, elementType, attrName, attrValue) ==
    IF c > Len(node.Children) THEN Nil
    ELSE Bind(IF node.Children[c].Type = ElementNode
              THEN findFirstElementByAttr(node.Children[c], Append(p, c),
                                          elementType, attrName, attrValue)
              ELSE Nil,
              LAMBDA tempNode :
                  IF tempNode # Nil THEN tempNode
                  ELSE FirstChildrenScan(node, p, c + 1, elementType, attrName, attrValue))

\* An error value: Nil, or Ptr(message).
Errorf(msg) == Ptr(msg)

ErrorText(err) == IF err = Nil THEN <<"%!s(<nil>)">> ELSE err[1]

\* getElementNodeVal(node): the Data of the first direct text child.
getElementNodeVal(node) ==
    LET texts == {c \in 1..Len(node.Children) : node.Children[c].Type = TextNode}
    IN  IF texts = {}
        THEN [val |-> EmptyString, err |-> Errorf(<<"ERROR::No text node found">>)]
        ELSE [val |-> node.Children[CHOOSE c \in texts : \A d \in texts : c <= d].Data,
              err |-> Nil]

\* getElementAttrByName(node, attrName): the value of the first attribute
\* with that key.
getElementAttrByName(node, attrName) ==
    LET found == {k \in 1..Len(node.Attr) : node.Attr[k].Key = attrName}
    IN  IF node.Type = ElementNode
        THEN IF found # {}
             THEN [val |-> node.Attr[CHOOSE k \in found : \A m \in found : k <= m].Val,
                   err |-> Nil]
             ELSE [val |-> EmptyString,
                   err |-> Errorf(<<"ERROR::Attribute ", attrName, " not found">>)]
        ELSE [val |-> EmptyString, err |-> Errorf(<<"ERROR::Node is not an element">>)]

\* ------------------------------------------------------------ item pipeline
\* Class and attribute values searched for by main and processItemNode.
ClassItem == <<"s-item">>
ClassItemLink == <<"s-item", "__link">>
ClassItemPrice == <<"s-item", "__price">>
ClassItemTitle == <<"s-item", "__title">>
ClassItemSubtitle == <<"s-item", "__subtitle">>
ClassSecondaryInfo == <<"SECONDARY_INFO">>
ClassPaginationNext == <<"pagination__next", " ", "icon-link">>
RoleHeading == <<"heading">>

\* json.MarshalIndent(item, "", "\t"): the JSON object of an ItemInfo, a
\* record under the keys of the struct tags.
MarshalIndent(item) ==
    [title |-> item.Title, condition |-> item.Condition,
     price |-> item.Price, product_url |-> item.ProductURL]

\* One run of processItemNode, up to its return: ret is the returned error,
\* stdout the lines it printed, file Nil or Ptr([name, data]) for the
\* os.WriteFile it issued.
Returned(err) == [ret |-> err, stdout |-> <<>>, file |-> Nil]

\* The record written for an item and what processItemNode returns with it
\* (lines 260-271).
Persist(itemID, href, price, title, condition, lines) ==
    [ret |-> Nil,
     stdout |-> lines,
     file |-> Ptr([name |-> <<"data/">> \o itemID \o <<".json">>,
                   data |-> MarshalIndent([Condition |-> condition,
                                           Price |-> price,
                                           ProductURL |-> href,
                                           Title |-> title])])]

ConditionWarning(itemID) == <<"WARNING::Condition DIV node not found ">> \o itemID \o <<"\n">>

\* A condition step that fails when the subtitle container is missing.
ProcessConditionStrict(root, p, itemID, href, price, title) ==
    Bind(findFirstElementByAttr(NodeAt(root, p), p, "div", "class", ClassItemSubtitle),
         LAMBDA subtitleNode :
    IF subtitleNode = Nil
    THEN Returned(Errorf(<<"ERROR::Condition DIV node not found">>))
    ELSE
    Bind(findFirstElementByAttr(NodeAt(root, subtitleNode[1]), subtitleNode[1],
                                "span", "class", ClassSecondaryInfo),
         LAMBDA conditionNode :
    IF conditionNode = Nil
    THEN Returned(Errorf(<<"ERROR::Condition SPAN node not found">>))
    ELSE
    Bind(getElementNodeVal(NodeAt(root, conditionNode[1])),
         LAMBDA condition :
    IF condition.err # Nil
    THEN Returned(Errorf(<<"ERROR::Condition value not found\n">> \o ErrorText(condition.err)))
    ELSE Persist(itemID, href, price, title, condition.val, <<>>))))

\* A condition step that tolerates a subtitle container without its span.
ProcessConditionLenient(root, p, itemID, href, price, title) ==
    Bind(findFirstElementByAttr(NodeAt(root, p), p, "div", "class", ClassItemSubtitle),
         LAMBDA subtitleNode :
    IF subtitleNode = Nil
    THEN Persist(itemID, href, price, title, EmptyString, <<ConditionWarning(itemID)>>)
    ELSE
    Bind(findFirstElementByAttr(NodeAt(root, subtitleNode[1]), subtitleNode[1],
                                "span", "class", ClassSecondaryInfo),
         LAMBDA conditionNode :
    IF conditionNode = Nil
    THEN Persist(itemID, href, price, title, EmptyString, <<ConditionWarning(itemID)>>)
    ELSE
    Bind(getElementNodeVal(NodeAt(root, conditionNode[1])),
         LAMBDA condition :
    IF condition.err # Nil
    THEN Returned(Errorf(<<"ERROR::Condition value not found\n">> \o ErrorText(condition.err)))
    ELSE Persist(itemID, href, price, title, condition.val, <<>>))))

\* Lines 243-258, then Persist: the condition, which may be missing when the
\* subtitle div is.
ProcessCondition(root, p, itemID, href, price, title) ==
    Bind(findFirstElementByAttr(NodeAt(root, p), p, "div", "class", ClassItemSubtitle),
         LAMBDA subtitleNode :
    IF subtitleNode = Nil
    THEN Persist(itemID, href, price, title, EmptyString, <<ConditionWarning(itemID)>>)
    ELSE
    Bind(findFirstElementByAttr(NodeAt(root, subtitleNode[1]), subtitleNode[1],
                                "span", "class", ClassSecondaryInfo),
         LAMBDA conditionNode :
    IF conditionNode = Nil
    THEN Returned(Errorf(<<"ERROR::Condition SPAN node not found">>))
    ELSE
    Bind(getElementNodeVal(NodeAt(root, conditionNode[1])),
         LAMBDA condition :
    IF condition.err # Nil
    THEN Returned(Errorf(<<"ERROR::Condition value not found\n">> \o ErrorText(condition.err)))
    ELSE Persist(itemID, href, price, title, condition.val, <<>>))))

\* A title step that ignores the error of getElementNodeVal.
ProcessTitleUnchecked(root, p, itemID, href, price) ==
    Bind(findFirstElementByAttr(NodeAt(root, p), p, "div", "class", ClassItemTitle),
         LAMBDA titleDivNode :
    IF titleDivNode = Nil
    THEN Returned(Errorf(<<"ERROR::Title DIV node not found">>))
    ELSE
    Bind(findFirstElementByAttr(NodeAt(root, titleDivNode[1]), titleDivNode[1],
                                "span", "role", RoleHeading),
         LAMBDA titleNode :
    IF titleNode = Nil
    THEN Returned(Errorf(<<"ERROR::Title SPAN node not found">>))
    ELSE
    Bind(getElementNodeVal(NodeAt(root, titleNode[1])),
         LAMBDA title :
    ProcessCondition(root, p, itemID, href, price, title.val))))

\* Lines 229-241: the title.
ProcessTitle(root, p, itemID, href, price) ==
    Bind(findFirstElementByAttr(NodeAt(root, p), p, "div", "class", ClassItemTitle),
         LAMBDA titleDivNode :
    IF titleDivNode = Nil
    THEN Returned(Errorf(<<"ERROR::Title DIV node not found">>))
    ELSE
    Bind(findFirstElementByAttr(NodeAt(root, titleDivNode[1]), titleDivNode[1],
                                "span", "role", RoleHeading),
         LAMBDA titleNode :
    IF titleNode = Nil
    THEN Returned(Errorf(<<"ERROR::Title SPAN node not found">>))
    ELSE
    Bind(getElementNodeVal(NodeAt(root, titleNode[1])),
         LAMBDA title :
    IF title.err # Nil
    THEN Returned(Errorf(<<"ERROR::Title value not found\n">> \o ErrorText(title.err)))
    ELSE ProcessCondition(root, p, itemID, href, price, title.val))))

\* Lines 211-227: the price.  The error printed into the message of line 224
\* is the nil error of getElementNodeVal.
ProcessPrice(root, p, itemID, href) ==
    Bind(findFirstElementByAttr(NodeAt(root, p), p, "span", "class", ClassItemPrice),
         LAMBDA priceNode :
    IF priceNode = Nil
    THEN Returned(Errorf(<<"ERROR::Price node not found">>))
    ELSE
    Bind(getElementNodeVal(NodeAt(root, priceNode[1])),
         LAMBDA price :
    IF price.err # Nil
    THEN Returned(Errorf(<<"ERROR::Price value not found\n">> \o ErrorText(price.err)))
    ELSE
    Bind(priceRegExFind(price.val),
         LAMBDA matches :
    IF matches = Nil
    THEN Returned(Errorf(<<"ERROR::Price value cannot be parsed\n">> \o ErrorText(price.err)))
    ELSE ProcessTitle(root, p, itemID, href, matches[1]))))

\* An id step that takes the whole match for the item id.
processItemNodeWholeMatch(root, p) ==
    Bind(findFirstElementByAttr(NodeAt(root, p), p, "a", "class", ClassItemLink),
         LAMBDA itemLink :
    IF itemLink = Nil
    THEN Returned(Errorf(<<"ERROR::Item link node not found">>))
    ELSE
    Bind(getElementAttrByName(NodeAt(root, itemLink[1]), "href"),
         LAMBDA href :
    IF href.err # Nil
    THEN Returned(Errorf(<<"ERROR::">> \o ErrorText(href.err)))
    ELSE
    Bind(itemIDRegExFind(href.val),
         LAMBDA matches :
    IF matches = Nil
    THEN Returned(Errorf(<<"ERROR::Price value cannot be parsed\n">> \o ErrorText(href.err)))
    ELSE IF Len(matches) < 2
    THEN Returned(Errorf(<<"ERROR::Item ID cannot be parsed">>))
    ELSE ProcessPrice(root, p, matches[1], href.val))))

\* Lines 189-209: the link, its href and the item id; then, through
\* ProcessPrice, ProcessTitle and ProcessCondition, the rest of
\* processItemNode.  The error printed into the message of line 202 is the nil
\* error of getElementAttrByName.
processItemNode(root, p) ==
    Bind(findFirstElementByAttr(NodeAt(root, p), p, "a", "class", ClassItemLink),
         LAMBDA itemLink :
    IF itemLink = Nil
    THEN Returned(Errorf(<<"ERROR::Item link node not found">>))
    ELSE
    Bind(getElementAttrByName(NodeAt(root, itemLink[1]), "href"),
         LAMBDA href :
    IF href.err # Nil
    THEN Returned(Errorf(<<"ERROR::">> \o ErrorText(href.err)))
    ELSE
    Bind(itemIDRegExFind(href.val),
         LAMBDA matches :
    IF matches = Nil
    THEN Returned(Errorf(<<"ERROR::Price value cannot be parsed\n">> \o ErrorText(href.err)))
    ELSE IF Len(matches) < 2
    THEN Returned(Errorf(<<"ERROR::Item ID cannot be parsed">>))
    ELSE ProcessPrice(root, p, matches[2], href.val))))

\* ------------------------------------------------------------------ markup
\* What the server can send.  A response body is described by the markup it
\* carries; html.Parse (Parse below) builds the node tree from it.  An
\* optional part is Nil when the markup lacks it and Ptr(part) otherwise:
\*   item.link     : Nil | Ptr(href),  href : Nil | Ptr(string)
\*   item.price    : Nil | Ptr(text),  text : Nil | Ptr(string)
\*   item.title    : Nil | Ptr(span),  span : Nil | Ptr(text)
\*   item.subtitle : Nil | Ptr(span),  span : Nil | Ptr(text)
\*   page.next     : Nil | Ptr(href)
ItemMarkup(link, price, title, subtitle) ==
    [link |-> link, price |-> price, title |-> title, subtitle |-> subtitle]

TextChildren(text) == IF text = Nil THEN <<>> ELSE <<Text(text[1])>>

ParseItem(item) ==
    Element("li",
        <<Attribute("class", <<"s-item", " ", "s-item", "__pl-on-bottom">>),
          Attribute("id", <<"item">>)>>,
        <<Element("div", <<Attribute("class", <<"s-item", "__info">>)>>,
            (IF item.link = Nil THEN <<>>
             ELSE <<Element("a",
                        <<Attribute("class", ClassItemLink)>>
                        \o (IF item.link[1] = Nil THEN <<>>
                            ELSE <<Attribute("href", item.link[1][1])>>),
                        <<>>)>>)
            \o (IF item.title = Nil THEN <<>>
                ELSE <<Element("div", <<Attribute("class", ClassItemTitle)>>,
                           IF item.title[1] = Nil THEN <<>>
                           ELSE <<Element("span", <<Attribute("role", RoleHeading)>>,
                                      TextChildren(item.title[1][1]))>>)>>)
            \o (IF item.subtitle = Nil THEN <<>>
                ELSE <<Element("div", <<Attribute("class", ClassItemSubtitle)>>,
                           IF item.subtitle[1] = Nil THEN <<>>
                           ELSE <<Element("span", <<Attribute("class", ClassSecondaryInfo)>>,
                                      TextChildren(item.subtitle[1][1]))>>)>>)
            \o <<Element("div", <<Attribute("class", <<"s-item", "__details">>)>>,
                     IF item.price = Nil THEN <<>>
                     ELSE <<Element("span", <<Attribute("class", ClassItemPrice)>>,
                                TextChildren(item.price[1]))>>)>>)>>)

\* html.Parse(strings.NewReader(bodyHTML)) for a body that parses.
Parse(body) ==
    Document(<<Element("html", <<>>,
        <<Element("head", <<>>, <<>>),
          Element("body", <<>>,
              <<Element("ul", <<Attribute("class", <<"srp-results">>)>>,
                    [k \in 1..Len(body.items) |-> ParseItem(body.items[k])])>>
              \o (IF body.next = Nil THEN <<>>
                  ELSE <<Element("nav", <<Attribute("class", <<"pagination">>)>>,
                             <<Element("a",
                                   <<Attribute("class", ClassPaginationNext)>>
                                   \o (IF body.next[1] = Nil THEN <<>>
                                       ELSE <<Attribute("href", body.next[1][1])>>),
                                   <<>>)>>)>>))>>)>>)

\* The item markups of the model.
ID1 == <<"1", "2">>
ID2 == <<"7">>

ItemURL(id) == <<"https://www.ebay.com/", "itm/">> \o id \o <<"?", "hash=item">>

PriceRange ==
    <<"$", "1", ",", "2", "3", "4", ".", "5", "6", " ", "to", " ",
      "$", "1", ",", "5", "0", "0", ".", "0", "0">>

PriceSingle == <<"$", "2", "0", ".", "0", "0">>

GoodLink == Ptr(Ptr(ItemURL(ID1)))
GoodPrice == Ptr(Ptr(PriceRange))
GoodTitle == Ptr(Ptr(Ptr(<<"Laptop">>)))
GoodSubtitle == Ptr(Ptr(Ptr(<<"Pre-Owned">>)))

ItemFull == ItemMarkup(GoodLink, GoodPrice, GoodTitle, GoodSubtitle)

ItemNoSubtitle ==
    ItemMarkup(Ptr(Ptr(ItemURL(ID2))), Ptr(Ptr(PriceSingle)), Ptr(Ptr(Ptr(<<"Monitor">>))), Nil)

ItemSameID ==
    ItemMarkup(GoodLink, Ptr(Ptr(PriceSingle)), Ptr(Ptr(Ptr(<<"Laptop", " ", "bag">>))), Nil)

CompleteItems == {ItemFull, ItemNoSubtitle, ItemSameID}

\* ItemFull with one part of the markup missing.
DefectiveItems ==
    {ItemMarkup(l, GoodPrice, GoodTitle, GoodSubtitle) :
        l \in {Nil, Ptr(Nil), Ptr(Ptr(<<"https://www.ebay.com/", "itm/", "1", "2">>))}}
    \cup {ItemMarkup(GoodLink, p, GoodTitle, GoodSubtitle) :
        p \in {Nil, Ptr(Nil), Ptr(Ptr(<<"See", " ", "price">>))}}
    \cup {ItemMarkup(GoodLink, GoodPrice, t, GoodSubtitle) :
        t \in {Nil, Ptr(Nil), Ptr(Ptr(Nil))}}
    \cup {ItemMarkup(GoodLink, GoodPrice, GoodTitle, s) :
        s \in {Ptr(Nil), Ptr(Ptr(Nil))}}

Items == CompleteItems \cup DefectiveItems

StartURL == <<"https://www.ebay.com/sch/garlandcomputer/m.html">>

NextURL == StartURL \o <<"?_pgn=", "2">>

\* An href that is no URL: url.Parse rejects a string that starts with a
\* colon (missing protocol scheme).
BadURL == <<":", "_pgn=", "2">>

\* The next-page anchor of a body: none, one without href, one with an href.
Nexts == {Nil, Ptr(Nil), Ptr(Ptr(NextURL)), Ptr(Ptr(BadURL))}

\* The item sequences of a response body: up to MaxItems complete items, or
\* one defective item, alone or next to one complete item.
ItemLists ==
    UNION {[1..n -> CompleteItems] : n \in 0..MaxItems}
    \cup {<<d>> : d \in DefectiveItems}
    \cup {<<d, c>> : d \in DefectiveItems, c \in CompleteItems}
    \cup {<<c, d>> : d \in DefectiveItems, c \in CompleteItems}

Bodies ==
    {[kind |-> "html", items |-> items, next |-> next] : items \in ItemLists, next \in Nexts}
    \cup {[kind |-> "unparsable", items |-> <<>>, next |-> Nil]}

\* http.NewRequest(http.MethodGet, url, nil) fails when url.Parse rejects url.
NewRequestFails(url) == Len(url) >= 1 /\ url[1] = ":"

\* getPageHTML(url): the results a GET of url can have.  A result is
\* [body, err].  No request is made of a url that does not parse;
\* http.DefaultClient.Do fails on the empty URL (it has no protocol scheme);
\* any other request can fail in transport or while the body is read, or
\* deliver a body.
getPageHTML(url) ==
    IF NewRequestFails(url)
    THEN {[body |-> Nil,
           err |-> Errorf(<<"ERROR::Can't create request: ", "missing protocol scheme">>)]}
    ELSE {[body |-> Nil,
           err |-> Errorf(<<"ERROR::Can't make http request: ", "transport">>)]}
         \cup (IF url = EmptyString THEN {}
               ELSE {[body |-> Nil,
                      err |-> Errorf(<<"ERROR::Can't read http response body: ", "read">>)]}
                    \cup {[body |-> Ptr(b), err |-> Nil] : b \in Bodies})

\* --------------------------------------------------------------- page loop
VARIABLES
    pageURL,          \* main: pageURL
    pc,               \* main: "fetch", "parse", "extract", "dispatch", "wait",
                      \*       "paginate", "done" (main returned), "exited" (os.Exit)
    exitStatus,       \* Nil while the process runs, then Ptr(status)
    bodyHTML,         \* main: bodyHTML, Nil outside an iteration
    pageHTML,         \* main: pageHTML, the parsed tree, Nil outside an iteration
    itemElementList,  \* main: itemElementList, a sequence of paths
    hasMorePages,     \* main: hasMorePages
    nextButtonNode,   \* main: nextButtonNode, Nil or Ptr(path)
    wg,               \* the counter of the sync.WaitGroup
    i,                \* main: i of the dispatch loop (1-based)
    tasks,            \* the goroutines of this page: pc, returned error, file written
    files,            \* the directory data: file name -> content
    stdout,           \* the lines printed since pageURL last advanced to a next page
    fetches,          \* number of GET requests issued
    call,             \* a single call of a function on its own: Nil, or the call
    result,           \* Nil, or Ptr(what the call returned)
    filesBefore       \* history: the directory data as the loop iteration found it

vars == <<pageURL, pc, exitStatus, bodyHTML, pageHTML, itemElementList, hasMorePages,
          nextButtonNode, wg, i, tasks, files, stdout, fetches, call, result, filesBefore>>

ConditionArgs == {-1, 3, 10}

\* Lines 28-36: the start URL after flag parsing.
StartPageURL(conditionArg) ==
    IF conditionArg # -1
    THEN StartURL \o <<"?LH_ItemCondition=">> \o SprintfD(conditionArg)
    ELSE StartURL

Init ==
    /\ pageURL \in {StartPageURL(c) : c \in ConditionArgs}
    /\ pc = "fetch"
    /\ exitStatus = Nil
    /\ bodyHTML = Nil
    /\ pageHTML = Nil
    /\ itemElementList = <<>>
    /\ hasMorePages = FALSE
    /\ nextButtonNode = Nil
    /\ wg = 0
    /\ i = 1
    /\ tasks = <<>>
    /\ files = <<>>
    /\ stdout = <<>>
    /\ fetches = 0
    /\ call = Nil
    /\ result = Nil
    /\ filesBefore = <<>>

\* os.Exit(1) after printing line.
Exit1(line) ==
    /\ stdout' = Append(stdout, line)
    /\ pc' = "exited"
    /\ exitStatus' = Ptr(1)

\* A fetch that is tried again when it fails.
FetchRetry ==
    /\ pc = "fetch"
    /\ fetches < MaxFetches
    /\ fetches' = fetches + 1
    /\ \E r \in getPageHTML(pageURL) :
          IF r.err # Nil
          THEN /\ stdout' = Append(stdout, ErrorText(r.err) \o <<"\n">>)
               /\ UNCHANGED <<bodyHTML, pc, exitStatus>>
          ELSE /\ bodyHTML' = r.body[1]
               /\ pc' = "parse"
               /\ UNCHANGED <<stdout, exitStatus>>
    /\ UNCHANGED <<pageURL, pageHTML, itemElementList, hasMorePages, nextButtonNode,
                   wg, i, tasks, files>>
    /\ UNCHANGED <<call, result, filesBefore>>

\* Lines 40-44: one GET of pageURL.
Fetch ==
    /\ pc = "fetch"
    /\ fetches < MaxFetches
    /\ fetches' = fetches + 1
    /\ \E r \in getPageHTML(pageURL) :
          IF r.err # Nil
          THEN /\ Exit1(ErrorText(r.err) \o <<"\n">>)
               /\ UNCHANGED bodyHTML
          ELSE /\ bodyHTML' = r.body[1]
               /\ pc' = "parse"
               /\ UNCHANGED <<stdout, exitStatus>>
    /\ UNCHANGED <<pageURL, pageHTML, itemElementList, hasMorePages, nextButtonNode,
                   wg, i, tasks, files>>
    /\ UNCHANGED <<call, result, filesBefore>>

\* Lines 47-51.
ParseBody ==
    /\ pc = "parse"
    /\ IF bodyHTML.kind = "unparsable"
       THEN /\ Exit1(<<"Can't parse HTML\n">>)
            /\ UNCHANGED pageHTML
       ELSE /\ pageHTML' = Parse(bodyHTML)
            /\ pc' = "extract"
            /\ UNCHANGED <<stdout, exitStatus>>
    /\ UNCHANGED <<pageURL, bodyHTML, itemElementList, hasMorePages, nextButtonNode,
                   wg, i, tasks, files, fetches>>
    /\ UNCHANGED <<call, result, filesBefore>>

NewTask == [pc |-> "unstarted", ret |-> Nil, file |-> Nil]

\* An extraction that goes on with an empty item list.
ExtractNoEmptyCheck ==
    /\ pc = "extract"
    /\ \E list \in {findItemElementsByClass(pageHTML, <<>>, "li", ClassItem, <<>>)},
          next \in {findFirstElementByAttr(pageHTML, <<>>, "a", "class", ClassPaginationNext)} :
           /\ itemElementList' = list
           /\ nextButtonNode' = next
           /\ hasMorePages' = (next # Nil)
           /\ stdout' = Append(stdout, <<"Found ">> \o SprintfD(Len(list)) \o <<" items\n">>)
           /\ wg' = Len(list)
           /\ tasks' = [t \in 1..Len(list) |-> NewTask]
           /\ i' = 1
           /\ pc' = "dispatch"
           /\ UNCHANGED exitStatus
    /\ UNCHANGED <<pageURL, bodyHTML, pageHTML, files, fetches>>
    /\ UNCHANGED <<call, result, filesBefore>>

\* Lines 54-78: collect the item nodes, look for the next-page anchor, set up
\* the wait group.  os.Mkdir("data") adds no file.
Extract ==
    /\ pc = "extract"
    /\ \E list \in {findItemElementsByClass(pageHTML, <<>>, "li", ClassItem, <<>>)},
          next \in {findFirstElementByAttr(pageHTML, <<>>, "a", "class", ClassPaginationNext)} :
           IF Len(list) = 0
           THEN /\ Exit1(<<"Failed to get items\n">>)
                /\ UNCHANGED <<itemElementList, hasMorePages, nextButtonNode, wg, i, tasks>>
           ELSE /\ itemElementList' = list
                /\ nextButtonNode' = next
                /\ hasMorePages' = (next # Nil)
                /\ stdout' = Append(stdout, <<"Found ">> \o SprintfD(Len(list)) \o <<" items\n">>)
                /\ wg' = Len(list)
                /\ tasks' = [t \in 1..Len(list) |-> NewTask]
                /\ i' = 1
                /\ pc' = "dispatch"
                /\ UNCHANGED exitStatus
    /\ UNCHANGED <<pageURL, bodyHTML, pageHTML, files, fetches>>
    /\ UNCHANGED <<call, result, filesBefore>>

\* Lines 80-85: one turn of the dispatch loop; the go statement starts
\* goroutine i and drops what it returns.
Dispatch ==
    /\ pc = "dispatch"
    /\ IF i <= Len(itemElementList)
       THEN /\ tasks' = [tasks EXCEPT ![i].pc = "running"]
            /\ i' = i + 1
            /\ UNCHANGED pc
       ELSE /\ pc' = "wait"
            /\ UNCHANGED <<tasks, i>>
    /\ UNCHANGED <<pageURL, exitStatus, bodyHTML, pageHTML, itemElementList, hasMorePages,
                   nextButtonNode, wg, files, stdout, fetches>>
    /\ UNCHANGED <<call, result, filesBefore>>

\* A write that leaves an existing file as it is.
WriteFileKeepOld(dir, name, data) ==
    [n \in DOMAIN dir \cup {name} |-> IF n \in DOMAIN dir THEN dir[n] ELSE data]

\* os.WriteFile(name, data, 0644) into the directory data: the file is
\* created or its content replaced.  The write is taken to succeed (line 269
\* drops its error).
WriteFile(dir, name, data) ==
    [n \in DOMAIN dir \cup {name} |-> IF n = name THEN data ELSE dir[n]]

\* A goroutine whose failure ends the process.
ProcessItemAbort(t) ==
    /\ pc \in {"dispatch", "wait"}
    /\ t \in DOMAIN tasks
    /\ tasks[t].pc = "running"
    /\ \E r \in {processItemNode(pageHTML, itemElementList[t])} :
           /\ tasks' = [tasks EXCEPT ![t] = [pc |-> "returned", ret |-> r.ret, file |-> r.file]]
           /\ files' = IF r.file = Nil THEN files
                       ELSE WriteFile(files, r.file[1].name, r.file[1].data)
           /\ IF r.ret # Nil
              THEN Exit1(ErrorText(r.ret))
              ELSE /\ stdout' = stdout \o r.stdout
                   /\ UNCHANGED <<pc, exitStatus>>
    /\ wg' = wg - 1
    /\ UNCHANGED <<pageURL, bodyHTML, pageHTML, itemElementList,
                   hasMorePages, nextButtonNode, i, fetches>>
    /\ UNCHANGED <<call, result, filesBefore>>

\* A goroutine that writes no file that exists.
ProcessItemWriteOnce(t) ==
    /\ pc \in {"dispatch", "wait"}
    /\ t \in DOMAIN tasks
    /\ tasks[t].pc = "running"
    /\ \E r \in {processItemNode(pageHTML, itemElementList[t])} :
           /\ tasks' = [tasks EXCEPT ![t] = [pc |-> "returned", ret |-> r.ret, file |-> r.file]]
           /\ stdout' = stdout \o r.stdout
           /\ files' = IF r.file = Nil \/ r.file[1].name \in DOMAIN files THEN files
                       ELSE WriteFile(files, r.file[1].name, r.file[1].data)
    /\ wg' = wg - 1
    /\ UNCHANGED <<pageURL, pc, exitStatus, bodyHTML, pageHTML, itemElementList,
                   hasMorePages, nextButtonNode, i, fetches>>
    /\ UNCHANGED <<call, result, filesBefore>>

\* A goroutine that calls wg.Done() only when it returns no error.
ProcessItemNoDefer(t) ==
    /\ pc \in {"dispatch", "wait"}
    /\ t \in DOMAIN tasks
    /\ tasks[t].pc = "running"
    /\ \E r \in {processItemNode(pageHTML, itemElementList[t])} :
           /\ tasks' = [tasks EXCEPT ![t] = [pc |-> "returned", ret |-> r.ret, file |-> r.file]]
           /\ stdout' = stdout \o r.stdout
           /\ files' = IF r.file = Nil THEN files
                       ELSE WriteFile(files, r.file[1].name, r.file[1].data)
           /\ wg' = IF r.ret = Nil THEN wg - 1 ELSE wg
    /\ UNCHANGED <<pageURL, pc, exitStatus, bodyHTML, pageHTML, itemElementList,
                   hasMorePages, nextButtonNode, i, fetches>>
    /\ UNCHANGED <<call, result, filesBefore>>

\* Lines 187-272: goroutine t runs processItemNode to its return; the
\* deferred wg.Done() runs on every return.
ProcessItem(t) ==
    /\ pc \in {"dispatch", "wait"}
    /\ t \in DOMAIN tasks
    /\ tasks[t].pc = "running"
    /\ \E r \in {processItemNode(pageHTML, itemElementList[t])} :
           /\ tasks' = [tasks EXCEPT ![t] = [pc |-> "returned", ret |-> r.ret, file |-> r.file]]
           /\ stdout' = stdout \o r.stdout
           /\ files' = IF r.file = Nil THEN files
                       ELSE WriteFile(files, r.file[1].name, r.file[1].data)
    /\ wg' = wg - 1
    /\ UNCHANGED <<pageURL, pc, exitStatus, bodyHTML, pageHTML, itemElementList,
                   hasMorePages, nextButtonNode, i, fetches>>
    /\ UNCHANGED <<call, result, filesBefore>>

\* A wait that returns while goroutines are still running.
WaitNoBarrier ==
    /\ pc = "wait"
    /\ pc' = "paginate"
    /\ UNCHANGED <<pageURL, exitStatus, bodyHTML, pageHTML, itemElementList, hasMorePages,
                   nextButtonNode, wg, i, tasks, files, stdout, fetches>>
    /\ UNCHANGED <<call, result, filesBefore>>

\* Line 87: wg.Wait() returns when the counter is zero.
Wait ==
    /\ pc = "wait"
    /\ wg = 0
    /\ pc' = "paginate"
    /\ UNCHANGED <<pageURL, exitStatus, bodyHTML, pageHTML, itemElementList, hasMorePages,
                   nextButtonNode, wg, i, tasks, files, stdout, fetches>>
    /\ UNCHANGED <<call, result, filesBefore>>

\* The variables declared in the loop body go out of scope when the loop
\* turns, and the goroutines of the page are gone.
EndIteration ==
    /\ bodyHTML' = Nil
    /\ pageHTML' = Nil
    /\ itemElementList' = <<>>
    /\ hasMorePages' = FALSE
    /\ nextButtonNode' = Nil
    /\ tasks' = <<>>
    /\ i' = 1
    /\ filesBefore' = files

FailedNextPage(err) == <<"ERROR::Failed to get next page ">> \o ErrorText(err) \o <<"\n">>

\* A page turn that fetches the page it has just finished once more.
PaginateSamePage ==
    /\ pc = "paginate"
    /\ IF hasMorePages
       THEN /\ pc' = "fetch"
            /\ stdout' = <<>>
            /\ UNCHANGED <<pageURL, exitStatus>>
            /\ EndIteration
       ELSE /\ pc' = "done"
            /\ exitStatus' = Ptr(0)
            /\ UNCHANGED <<pageURL, stdout, bodyHTML, pageHTML, itemElementList,
                           hasMorePages, nextButtonNode, tasks, i, filesBefore>>
    /\ UNCHANGED <<wg, files, fetches>>
    /\ UNCHANGED <<call, result>>

\* A page turn that keeps pageURL when the href cannot be read.
PaginateKeepURL ==
    /\ pc = "paginate"
    /\ IF hasMorePages
       THEN \E r \in {getElementAttrByName(NodeAt(pageHTML, nextButtonNode[1]), "href")} :
                /\ pageURL' = IF r.err # Nil THEN pageURL ELSE r.val
                /\ stdout' = IF r.err # Nil THEN Append(stdout, FailedNextPage(r.err)) ELSE <<>>
                /\ pc' = "fetch"
                /\ UNCHANGED exitStatus
                /\ EndIteration
       ELSE /\ pc' = "done"
            /\ exitStatus' = Ptr(0)
            /\ UNCHANGED <<pageURL, stdout, bodyHTML, pageHTML, itemElementList,
                           hasMorePages, nextButtonNode, tasks, i, filesBefore>>
    /\ UNCHANGED <<wg, files, fetches>>
    /\ UNCHANGED <<call, result>>

\* A page turn that never leaves the loop.
PaginateNoBreak ==
    /\ pc = "paginate"
    /\ IF hasMorePages
       THEN \E r \in {getElementAttrByName(NodeAt(pageHTML, nextButtonNode[1]), "href")} :
                /\ pageURL' = r.val
                /\ stdout' = IF r.err # Nil THEN Append(stdout, FailedNextPage(r.err)) ELSE <<>>
       ELSE UNCHANGED <<pageURL, stdout>>
    /\ pc' = "fetch"
    /\ EndIteration
    /\ UNCHANGED <<exitStatus, wg, files, fetches>>
    /\ UNCHANGED <<call, result>>

\* Lines 89-98: follow the next-page anchor (the value getElementAttrByName
\* returns is assigned to pageURL whether or not it comes with an error), or
\* leave the loop; main then returns and the process ends with status 0.
Paginate ==
    /\ pc = "paginate"
    /\ IF hasMorePages
       THEN \E r \in {getElementAttrByName(NodeAt(pageHTML, nextButtonNode[1]), "href")} :
                /\ pageURL' = r.val
                /\ stdout' = IF r.err # Nil THEN Append(stdout, FailedNextPage(r.err)) ELSE <<>>
                /\ pc' = "fetch"
                /\ UNCHANGED exitStatus
                /\ EndIteration
       ELSE /\ pc' = "done"
            /\ exitStatus' = Ptr(0)
            /\ UNCHANGED <<pageURL, stdout, bodyHTML, pageHTML, itemElementList,
                           hasMorePages, nextButtonNode, tasks, i, filesBefore>>
    /\ UNCHANGED <<wg, files, fetches>>
    /\ UNCHANGED <<call, result>>

Next ==
    \/ Fetch
    \/ ParseBody
    \/ Extract
    \/ Dispatch
    \/ \E t \in DOMAIN tasks : ProcessItem(t)
    \/ Wait
    \/ Paginate

Spec == Init /\ [][Next]_vars

\* Goroutine t has been started and has not returned.
Running(t) ==
    /\ pc \in {"dispatch", "wait"}
    /\ t \in DOMAIN tasks
    /\ tasks[t].pc = "running"

\* The Go scheduler runs every goroutine that can run: main goes on when it
\* is not blocked in wg.Wait(), and each started item task runs to its return.
\* ProcessItem(t) is enabled exactly when Running(t) holds and its step ends
\* Running(t), so WF_vars(ProcessItem(t)) is []<>~Running(t).  A GET is not
\* assumed to come back.
FairSpec ==
    /\ Spec
    /\ WF_vars(ParseBody)
    /\ WF_vars(Extract)
    /\ WF_vars(Dispatch)
    /\ \A t \in 1..(MaxItems + 1) : []<>~Running(t)
    /\ WF_vars(Wait)
    /\ WF_vars(Paginate)

\* ------------------------------------------------------------ single calls
\* One function of the program called on its own, on arguments from a
\* bounded set: call holds the arguments, result what the function returned.
\* A call is [fn, tree, p, elementType, attrName, attrValue]; tree describes
\* the parsed tree the call works on (CallTree builds it) and the node
\* argument is the node at path p of that tree.
Call(fn, tree, p, elementType, attrName, attrValue) ==
    [fn |-> fn, tree |-> tree, p |-> p,
     elementType |-> elementType, attrName |-> attrName, attrValue |-> attrValue]

\* The hrefs of the calls of processItemNode: every string of at most
\* maxLen atoms, and one with a run of digits that no "?" follows ahead
\* of two id segments.
HrefAtoms == {"itm/", "1", "2", "?", "x"}

LongHref == <<"itm/", "1", "itm/", "2", "?", "itm/", "1", "?">>

Hrefs(maxLen) == UNION {[1..n -> HrefAtoms] : n \in 0..maxLen} \cup {LongHref}

\* An item node whose first s-item__link anchor has the href h; a second
\* anchor of that class follows the rest of the item.
CallItemNode(h) ==
    LET li == ParseItem(ItemMarkup(Ptr(Ptr(h)), Ptr(Ptr(PriceSingle)), GoodTitle, Nil))
    IN  [li EXCEPT !.Children =
            @ \o <<Element("a", <<Attribute("class", ClassItemLink),
                                  Attribute("href", ItemURL(ID2))>>, <<>>)>>]

\* The trees of the calls: an item with an href; one element under the
\* document; four elements a, b, c, d under the document, b after a text in
\* a, c in b, d after a.
ItemTree(h) == [shape |-> "item", els |-> <<>>, href |-> h]

OneElementTree(e) == [shape |-> "one", els |-> <<e>>, href |-> <<>>]

NestedTree(a, b, c, d) == [shape |-> "nested", els |-> <<a, b, c, d>>, href |-> <<>>]

CallElement(e, children) == Element(e.tag, e.attr, children)

CallTree(tree) ==
    CASE tree.shape = "item" -> Document(<<CallItemNode(tree.href)>>)
      [] tree.shape = "one" -> Document(<<CallElement(tree.els[1], <<>>)>>)
      [] tree.shape = "nested" ->
            Document(<<CallElement(tree.els[1],
                           <<Text(<<"li">>),
                             CallElement(tree.els[2],
                                 <<CallElement(tree.els[3], <<>>)>>)>>),
                       CallElement(tree.els[4], <<>>)>>)

ItemCalls(maxLen) ==
    {Call("processItemNode", ItemTree(h), <<1>>, "", "", <<>>) : h \in Hrefs(maxLen)}

\* Attribute lists: at most maxAttrs attributes out of class and id
\* attributes, with and without a value.
CallAttrs ==
    {Attribute("class", <<"s-item", " ", "card">>), Attribute("class", <<"card">>),
     Attribute("class", EmptyString), Attribute("id", <<"i1">>), Attribute("id", EmptyString)}

CallAttrLists(maxAttrs) == UNION {[1..n -> CallAttrs] : n \in 0..maxAttrs}

CallTags == {"li", "div"}

OneElementTrees(maxAttrs) ==
    {OneElementTree([tag |-> tag, attr |-> attr]) :
        tag \in CallTags, attr \in CallAttrLists(maxAttrs)}

\* Elements that do or do not match a search for "li" with class "s-item":
\* a match, one with the id ahead of the class, one without id, one with
\* another tag.
CallElementKinds ==
    {[tag |-> "li", attr |-> <<Attribute("class", <<"s-item", " ", "card">>),
                               Attribute("id", <<"i1">>)>>],
     [tag |-> "li", attr |-> <<Attribute("id", <<"i1">>), Attribute("class", <<"s-item">>)>>],
     [tag |-> "li", attr |-> <<Attribute("class", <<"s-item">>)>>],
     [tag |-> "div", attr |-> <<Attribute("class", <<"s-item">>), Attribute("id", <<"i1">>)>>]}

NestedTrees ==
    {NestedTree(a, b, c, d) :
        a \in CallElementKinds, b \in CallElementKinds,
        c \in CallElementKinds, d \in CallElementKinds}

CallClassNames == {<<"s-item">>, <<"card">>, <<"zzz">>, EmptyString}

FindItemsCalls(maxAttrs) ==
    {Call("findItemElementsByClass", tree, <<>>, tag, "class", className) :
        tree \in OneElementTrees(maxAttrs) \cup NestedTrees, tag \in CallTags,
        className \in CallClassNames}
    \cup {Call("findItemElementsByClass", tree, <<1>>, tag, "class", className) :
            tree \in NestedTrees, tag \in CallTags, className \in CallClassNames}

CallAttrValues == {<<"s-item">>, <<"i1">>, EmptyString}

FindFirstCalls(maxAttrs) ==
    {Call("findFirstElementByAttr", tree, <<>>, tag, attrName, attrValue) :
        tree \in OneElementTrees(maxAttrs) \cup NestedTrees, tag \in CallTags,
        attrName \in {"class", "id"}, attrValue \in CallAttrValues}
    \cup {Call("findFirstElementByAttr", tree, <<1>>, tag, attrName, attrValue) :
            tree \in NestedTrees, tag \in CallTags,
            attrName \in {"class", "id"}, attrValue \in CallAttrValues}

Calls(maxLen, maxAttrs) ==
    ItemCalls(maxLen) \cup FindItemsCalls(maxAttrs) \cup FindFirstCalls(maxAttrs)

CallInit ==
    /\ pageURL = StartURL
    /\ pc = "fetch"
    /\ exitStatus = Nil
    /\ bodyHTML = Nil
    /\ pageHTML = Nil
    /\ itemElementList = <<>>
    /\ hasMorePages = FALSE
    /\ nextButtonNode = Nil
    /\ wg = 0
    /\ i = 1
    /\ tasks = <<>>
    /\ files = <<>>
    /\ stdout = <<>>
    /\ fetches = 0
    /\ call \in Calls(MaxHrefLen, MaxAttrs)
    /\ result = Nil
    /\ filesBefore = <<>>

\* What a call leaves alone: the call itself and the crawl.
CallFrame ==
    UNCHANGED <<pageURL, pc, exitStatus, bodyHTML, pageHTML, itemElementList, hasMorePages,
                nextButtonNode, wg, i, tasks, files, stdout, fetches, call, filesBefore>>

\* processItemNode(node, wg) up to its return, the write not carried out.
CallProcessItemNode ==
    /\ call # Nil
    /\ call.fn = "processItemNode"
    /\ result = Nil
    /\ result' = Ptr(processItemNode(CallTree(call.tree), call.p))
    /\ CallFrame

\* findItemElementsByClass(node, elementType, className, []*html.Node{}).
CallFindItemElementsByClass ==
    /\ call # Nil
    /\ call.fn = "findItemElementsByClass"
    /\ result = Nil
    /\ result' = Ptr(findItemElementsByClass(NodeAt(CallTree(call.tree), call.p), call.p,
                                             call.elementType, call.attrValue, <<>>))
    /\ CallFrame

\* findFirstElementByAttr(node, elementType, attrName, attrValue).
CallFindFirstElementByAttr ==
    /\ call # Nil
    /\ call.fn = "findFirstElementByAttr"
    /\ result = Nil
    /\ result' = Ptr(findFirstElementByAttr(NodeAt(CallTree(call.tree), call.p), call.p,
                                            call.elementType, call.attrName, call.attrValue))
    /\ CallFrame

CallNext ==
    \/ CallProcessItemNode
    \/ CallFindItemElementsByClass
    \/ CallFindFirstElementByAttr

CallSpec == CallInit /\ [][CallNext]_vars

\* ------------------------------------------------------------- properties
\* The page under work: between Extract and the page turn (and after main
\* returned) bodyHTML is the body of the page and task t runs on its t-th
\* item.
InPage == pc \in {"dispatch", "wait", "paginate", "done"}

ItemOf(t) == bodyHTML.items[t]

AllReturned == \A t \in DOMAIN tasks : tasks[t].pc = "returned"

\* Goroutine t returns in this step.
Returns(t) ==
    /\ t \in DOMAIN tasks
    /\ tasks[t].pc = "running"
    /\ t \in DOMAIN tasks'
    /\ tasks'[t].pc = "returned"

\* The markup of an item has every mandatory part: a link with an href that
\* holds an item id, a price span whose text holds a number, a title div
\* with a heading span that holds text.
MandatoryOK(item) ==
    /\ item.link # Nil
    /\ item.link[1] # Nil
    /\ itemIDRegExFind(item.link[1][1]) # Nil
    /\ item.price # Nil
    /\ item.price[1] # Nil
    /\ priceRegExFind(item.price[1][1]) # Nil
    /\ item.title # Nil
    /\ item.title[1] # Nil
    /\ item.title[1][1] # Nil

MissingMandatory(item) == ~MandatoryOK(item)

SubtitleWithoutSpan(item) == item.subtitle = Ptr(Nil)

IsDigits(s) == Len(s) >= 1 /\ \A k \in 1..Len(s) : s[k] \in Digits

\* An item task on an item with property Bad fails without a trace.
\* FailedQuietly: once returned, it has returned an error and written nothing.
FailedQuietly(Bad(_)) ==
    InPage =>
        \A t \in DOMAIN tasks :
            (tasks[t].pc = "returned" /\ Bad(ItemOf(t)))
                => (tasks[t].ret # Nil /\ tasks[t].file = Nil)

\* ContainedStep: the step in which it returns changes neither the files,
\* nor the page loop, nor another task.
ContainedStep(Bad(_)) ==
    \A t \in DOMAIN tasks :
        (Returns(t) /\ Bad(ItemOf(t)))
            => /\ files' = files
               /\ UNCHANGED <<pc, exitStatus, pageURL, pageHTML, itemElementList,
                              hasMorePages, nextButtonNode, fetches>>
               /\ \A u \in DOMAIN tasks : u # t => tasks'[u] = tasks[u]

\* SiblingsDone: at the barrier of a page with such an item the process is
\* alive, every complete item of the page has its file and the next-page
\* decision is the one the page's markup gives.
SiblingsDone(Bad(_)) ==
    (pc = "paginate" /\ \E t \in DOMAIN tasks : Bad(ItemOf(t))) =>
        /\ exitStatus = Nil
        /\ AllReturned
        /\ hasMorePages = (bodyHTML.next # Nil)
        /\ \A u \in DOMAIN tasks :
              ItemOf(u) \in CompleteItems
                  => (tasks[u].file # Nil /\ tasks[u].file[1].name \in DOMAIN files)

\* TurnsAsUsual: the loop then turns to the next page or ends.
TurnsAsUsual(Bad(_)) ==
    (pc = "paginate" /\ \E t \in DOMAIN tasks : Bad(ItemOf(t)))
        => pc' = IF bodyHTML.next = Nil THEN "done" ELSE "fetch"

\* C1: the next-page href is read and the next page is fetched only after
\* every item task dispatched for the page has returned (wg is back at zero),
\* whether it failed or not; files are written only between the dispatch and
\* the barrier, so every file of page N is there before page N+1 is fetched.
C1_Barrier ==
    /\ [](pc = "paginate" =>
            /\ Len(tasks) = Len(itemElementList)
            /\ Len(tasks) = Len(bodyHTML.items)
            /\ AllReturned
            /\ wg = 0
            /\ \A t \in DOMAIN tasks :
                  tasks[t].file # Nil => tasks[t].file[1].name \in DOMAIN files)
    /\ [][(fetches' # fetches \/ pageURL' # pageURL)
            => (pc \in {"fetch", "paginate"} /\ AllReturned /\ wg = 0)]_vars
    /\ [][pc' = "fetch" => pc = "paginate"]_vars
    /\ [][files' # files => pc \in {"dispatch", "wait"}]_vars

\* A second page has been fetched after the first page's items were written.
C1_Witness == fetches = 2 /\ pc = "parse" /\ DOMAIN files # {}

\* C2 (as stated): the price text "$1,234.56 to $1,500.00" is stored as
\* "1,234.56".
C2_PriceRangeStored ==
    InPage =>
        \A t \in DOMAIN tasks :
            (tasks[t].file # Nil /\ ItemOf(t).price = Ptr(Ptr(PriceRange)))
                => tasks[t].file[1].data.price = <<"1", ",", "2", "3", "4", ".", "5", "6">>

HrefUnreadable == pc = "paginate" /\ bodyHTML.next = Ptr(Nil)

HrefErrorLine ==
    <<"ERROR::Failed to get next page ", "ERROR::Attribute ", "href", " not found", "\n">>

\* C3 (as stated): when the next-page anchor has no readable href, an error
\* is logged, pageURL keeps its value and the loop fetches the same URL again.
C3_KeepsOldURL ==
    [][HrefUnreadable
        => (stdout' = Append(stdout, HrefErrorLine) /\ pageURL' = pageURL /\ pc' = "fetch")]_vars

\* C3 (amended): when the next-page anchor has no readable href, an error is
\* logged, pageURL becomes the empty string and the loop goes on to fetch
\* that empty URL; the process is not ended by the page turn.
C3_EmptyURL ==
    [][HrefUnreadable
        => /\ stdout' = Append(stdout, HrefErrorLine)
           /\ pageURL' = EmptyString
           /\ pc' = "fetch"
           /\ exitStatus' = Nil]_vars

C3_Witness ==
    /\ pc = "fetch"
    /\ pageURL = EmptyString
    /\ stdout # <<>>
    /\ stdout[Len(stdout)] = HrefErrorLine

NoItemNodes ==
    /\ pc = "extract"
    /\ Len(findItemElementsByClass(pageHTML, <<>>, "li", ClassItem, <<>>)) = 0

\* C4: when the item search returns no node the process ends with status 1
\* in that step: no task is set up, no file is written, nothing is fetched,
\* and nothing happens after the exit.
C4_EmptyFatal ==
    /\ [][NoItemNodes
            => /\ pc' = "exited"
               /\ exitStatus' = Ptr(1)
               /\ tasks' = <<>>
               /\ wg' = wg
               /\ files' = files
               /\ fetches' = fetches]_vars
    /\ [][pc # "exited"]_vars
    /\ [](pc = "exited" => (exitStatus = Ptr(1) /\ tasks = <<>>))

C4_Witness ==
    /\ pc = "exited"
    /\ pageHTML # Nil
    /\ bodyHTML.kind = "html"
    /\ bodyHTML.items = <<>>
    /\ fetches = 2
    /\ DOMAIN files # {}

LastPage ==
    /\ bodyHTML # Nil
    /\ bodyHTML.kind = "html"
    /\ Len(bodyHTML.items) >= 1
    /\ bodyHTML.next = Nil

\* C5: on a page with item nodes and no next-page anchor the crawl sets up
\* one task per item, fetches nothing more and, the goroutines being
\* scheduled, main returns with status 0; main returns only on such a page,
\* with every task returned.
C5_LastPage ==
    /\ [](pc = "done" =>
            /\ LastPage
            /\ exitStatus = Ptr(0)
            /\ Len(tasks) = Len(bodyHTML.items)
            /\ AllReturned
            /\ wg = 0)
    /\ [][(LastPage /\ pc \in {"extract", "dispatch", "wait", "paginate"})
            => /\ fetches' = fetches
               /\ pc' \in {"dispatch", "wait", "paginate", "done"}
               /\ exitStatus' \in {Nil, Ptr(0)}]_vars
    /\ [][pc # "done"]_vars
    /\ (LastPage /\ pc = "extract") ~> (pc = "done")

C5_Witness ==
    /\ pc = "done"
    /\ fetches = 2
    /\ Len(tasks) = 2
    /\ \E t \in DOMAIN tasks : tasks[t].ret # Nil

\* C6: an item with every mandatory part and no subtitle div is written with
\* an empty condition, returns no error and prints the warning with its id.
C6_MissingSubtitle ==
    InPage =>
        \A t \in DOMAIN tasks :
            (tasks[t].pc = "returned" /\ MandatoryOK(ItemOf(t)) /\ ItemOf(t).subtitle = Nil)
                => /\ tasks[t].ret = Nil
                   /\ tasks[t].file # Nil
                   /\ tasks[t].file[1].data.condition = EmptyString
                   /\ tasks[t].file[1].name \in DOMAIN files
                   /\ \E k \in DOMAIN stdout :
                         stdout[k] = <<"WARNING::Condition DIV node not found ">>
                                     \o itemIDRegExFind(ItemOf(t).link[1][1])[2]
                                     \o <<"\n">>

C6_Witness ==
    /\ InPage
    /\ \E t \in DOMAIN tasks :
          /\ tasks[t].pc = "returned"
          /\ ItemOf(t).subtitle = Nil
          /\ tasks[t].file # Nil
          /\ tasks[t].file[1].name \in DOMAIN files

\* C7: an item whose subtitle div lacks the SECONDARY_INFO span fails and
\* writes no file, and the crawl goes on with the other items and with the
\* page turn.
C7_SubtitleWithoutSpan ==
    /\ []FailedQuietly(SubtitleWithoutSpan)
    /\ [][ContainedStep(SubtitleWithoutSpan)]_vars
    /\ []SiblingsDone(SubtitleWithoutSpan)
    /\ [][TurnsAsUsual(SubtitleWithoutSpan)]_vars

C7_Witness ==
    /\ pc = "paginate"
    /\ hasMorePages
    /\ \E t, u \in DOMAIN tasks :
          /\ SubtitleWithoutSpan(ItemOf(t))
          /\ tasks[t].ret # Nil
          /\ tasks[u].file # Nil

\* C8: every file is named data/<digits>.json and holds a record whose
\* title, price and product_url are not empty.
C8_PersistedRecord ==
    \A n \in DOMAIN files :
        /\ Len(n) >= 3
        /\ n[1] = "data/"
        /\ n[Len(n)] = ".json"
        /\ IsDigits(SubSeq(n, 2, Len(n) - 1))
        /\ files[n].title # EmptyString
        /\ files[n].price # EmptyString
        /\ files[n].product_url # EmptyString

C8_Witness ==
    /\ Cardinality(DOMAIN files) = 2
    /\ \E n \in DOMAIN files : files[n].condition = EmptyString
    /\ \E n \in DOMAIN files : files[n].condition # EmptyString

\* C9: an item that lacks a mandatory part fails and writes no file; its
\* failure changes nothing for the other tasks or the page loop.
C9_Containment ==
    /\ []FailedQuietly(MissingMandatory)
    /\ [][ContainedStep(MissingMandatory)]_vars
    /\ []SiblingsDone(MissingMandatory)
    /\ [][TurnsAsUsual(MissingMandatory)]_vars

C9_Witness ==
    /\ pc = "paginate"
    /\ \E t, u \in DOMAIN tasks :
          /\ MissingMandatory(ItemOf(t))
          /\ tasks[t].ret # Nil
          /\ tasks[u].file # Nil
          /\ tasks[u].file[1].name \in DOMAIN files

\* C10 (as stated): when an item task fails on a mandatory part, a line
\* that describes the failure is printed.
C10_FailureReported ==
    InPage =>
        \A t \in DOMAIN tasks :
            (tasks[t].pc = "returned" /\ tasks[t].ret # Nil /\ MissingMandatory(ItemOf(t)))
                => \E k \in DOMAIN stdout :
                      \/ Contains(stdout[k], tasks[t].ret[1])
                      \/ stdout[k][1] = "ERROR::Failed processing item "

\* The call of processItemNode has returned; its href argument and result.
ItemCallReturned == call # Nil /\ call.fn = "processItemNode" /\ result # Nil

CallHref == call.tree.href

\* The id segments of an href: <<k, n>> when atom k is "itm/", the n >= 1
\* atoms after it are digits and a "?" follows them.
IdSegments(h) ==
    {s \in (1..Len(h)) \X (1..Len(h)) :
        /\ s[1] + s[2] + 1 <= Len(h)
        /\ h[s[1]] = "itm/"
        /\ \A j \in 1..s[2] : h[s[1] + j] \in Digits
        /\ h[s[1] + s[2] + 1] = "?"}

FirstIdSegment(h) == CHOOSE s \in IdSegments(h) : \A r \in IdSegments(h) : s[1] <= r[1]

\* The numeric segments of an href: <<k, n>> when atom k is "itm/" and the
\* n >= 1 atoms after it are a whole run of digits.
NumericSegments(h) ==
    {s \in (1..Len(h)) \X (1..Len(h)) :
        /\ s[1] + s[2] <= Len(h)
        /\ h[s[1]] = "itm/"
        /\ \A j \in 1..s[2] : h[s[1] + j] \in Digits
        /\ (s[1] + s[2] + 1 <= Len(h) => h[s[1] + s[2] + 1] \notin Digits)}

FirstNumericSegment(h) ==
    CHOOSE s \in NumericSegments(h) : \A r \in NumericSegments(h) : s[1] <= r[1]

IdFailure == Errorf(<<"ERROR::Price value cannot be parsed\n", "%!s(<nil>)">>)

\* C11 (as stated): the id is the run of digits after "itm/" in the href of
\* the first s-item__link anchor and product_url is that href; the item fails
\* on the id only when the href has no such run.
C11_NumericSegment ==
    ItemCallReturned =>
        IF NumericSegments(CallHref) = {}
        THEN result[1].ret = IdFailure /\ result[1].file = Nil
        ELSE /\ result[1].ret = Nil
             /\ result[1].file # Nil
             /\ result[1].file[1].name =
                    <<"data/">>
                    \o SubSeq(CallHref, FirstNumericSegment(CallHref)[1] + 1,
                              FirstNumericSegment(CallHref)[1] + FirstNumericSegment(CallHref)[2])
                    \o <<".json">>
             /\ result[1].file[1].data.product_url = CallHref

\* C11 (amended): the id is the run of digits of the leftmost "itm/", digits,
\* "?" in the href of the first s-item__link anchor and product_url is that
\* href; the item fails on the id exactly when the href has no such segment.
C11_IdExtraction ==
    ItemCallReturned =>
        IF IdSegments(CallHref) = {}
        THEN result[1].ret = IdFailure /\ result[1].file = Nil
        ELSE /\ result[1].ret = Nil
             /\ result[1].file # Nil
             /\ result[1].file[1].name =
                    <<"data/">>
                    \o SubSeq(CallHref, FirstIdSegment(CallHref)[1] + 1,
                              FirstIdSegment(CallHref)[1] + FirstIdSegment(CallHref)[2])
                    \o <<".json">>
             /\ result[1].file[1].data.product_url = CallHref

\* The id "2" is taken from an href with an earlier "itm/1" and a later
\* "itm/1?".
C11_Witness ==
    /\ ItemCallReturned
    /\ CallHref = LongHref
    /\ result[1].file # Nil
    /\ result[1].file[1].name = <<"data/", "2", ".json">>

\* The paths of the nodes of the subtree of node, whose path is p.
RECURSIVE PathsOf(_, _)
PathsOf(node, p) ==
    {p} \cup UNION {PathsOf(node.Children[c], Append(p, c)) : c \in 1..Len(node.Children)}

\* Document pre-order on paths: a node comes ahead of its descendants, and
\* the subtree of a child ahead of the subtrees of the children after it.
PathLess(p, q) ==
    \/ Len(p) < Len(q) /\ SubSeq(q, 1, Len(p)) = p
    \/ \E k \in 1..Len(p) :
          /\ k <= Len(q)
          /\ SubSeq(p, 1, k - 1) = SubSeq(q, 1, k - 1)
          /\ p[k] < q[k]

HasAttr(node, key, substr) ==
    \E k \in 1..Len(node.Attr) : node.Attr[k].Key = key /\ Contains(node.Attr[k].Val, substr)

\* A node findAllByClass is to return: an element with the tag, a class
\* attribute that contains the substring and an id attribute that is not
\* empty.
QualifiesByClass(node, tag, substr) ==
    /\ node.Type = ElementNode
    /\ node.Data = tag
    /\ HasAttr(node, "class", substr)
    /\ \E k \in 1..Len(node.Attr) : node.Attr[k].Key = "id" /\ node.Attr[k].Val # EmptyString

FindItemsReturned == call # Nil /\ call.fn = "findItemElementsByClass" /\ result # Nil

\* result[1] is the sequence of the paths in Q, each once, in pre-order.
InPreOrder(Q) ==
    /\ {result[1][k] : k \in 1..Len(result[1])} = Q
    /\ Len(result[1]) = Cardinality(Q)
    /\ \A k \in 1..(Len(result[1]) - 1) : PathLess(result[1][k], result[1][k + 1])

\* C12 (as stated): for every tree, tag and substring, findItemElementsByClass
\* returns the qualifying nodes of the subtree, each once, in pre-order.
C12_AllQualifying ==
    FindItemsReturned =>
        InPreOrder({q \in PathsOf(NodeAt(CallTree(call.tree), call.p), call.p) :
                      QualifiesByClass(NodeAt(CallTree(call.tree), q), call.elementType, call.attrValue)})

\* A node findFirstByAttr may return: an element with the tag and an
\* attribute of the name whose value contains the substring.
QualifiesByAttr(node, tag, attrName, substr) ==
    /\ node.Type = ElementNode
    /\ node.Data = tag
    /\ HasAttr(node, attrName, substr)

FindFirstReturned == call # Nil /\ call.fn = "findFirstElementByAttr" /\ result # Nil

QualifyingByAttr ==
    {q \in PathsOf(NodeAt(CallTree(call.tree), call.p), call.p) :
        QualifiesByAttr(NodeAt(CallTree(call.tree), q), call.elementType, call.attrName, call.attrValue)}

\* C13: findFirstElementByAttr returns the qualifying node of the subtree
\* that is first in pre-order, the root of the subtree included, and nil
\* exactly when no node of the subtree qualifies.
C13_FirstInPreOrder ==
    FindFirstReturned =>
        IF QualifyingByAttr = {}
        THEN result[1] = Nil
        ELSE /\ result[1] # Nil
             /\ result[1][1] \in QualifyingByAttr
             /\ \A q \in QualifyingByAttr \ {result[1][1]} : PathLess(result[1][1], q)

\* The innermost element came back while the element after its ancestor
\* qualifies too and its ancestors do not.
C13_Witness ==
    /\ FindFirstReturned
    /\ result[1] = Ptr(<<1, 2, 1>>)
    /\ <<2>> \in QualifyingByAttr

\* C14 (as stated): no two item tasks of a page write the same file.
C14_DisjointWrites ==
    InPage =>
        \A t, u \in DOMAIN tasks :
            (t # u /\ tasks[t].file # Nil /\ tasks[u].file # Nil)
                => tasks[t].file[1].name # tasks[u].file[1].name

\* The id in the href of an item whose markup has every mandatory part, and
\* the file of an id.
ItemID(item) == itemIDRegExFind(item.link[1][1])[2]

DataFile(id) == <<"data/">> \o id \o <<".json">>

\* C15: a task that persists a record writes the file data/<id>.json of its
\* item's id and no other: the file then holds that record and nothing of
\* what it held before, no file appears or disappears besides it, every other
\* file keeps its content, and writing the record the file already holds
\* leaves the directory as it was.
C15_OverwriteById ==
    [][\A t \in DOMAIN tasks :
          (Returns(t) /\ tasks'[t].file # Nil) =>
              LET name == DataFile(ItemID(ItemOf(t)))
                  rec == tasks'[t].file[1].data
              IN  /\ tasks'[t].file[1].name = name
                  /\ DOMAIN files' = DOMAIN files \cup {name}
                  /\ files'[name] = rec
                  /\ \A n \in DOMAIN files \ {name} : files'[n] = files[n]
                  /\ (name \in DOMAIN files /\ files[name] = rec) => files' = files]_vars

\* Two tasks of a page have written different records for one id, and the
\* file of the id holds one of the two.
C15_Witness ==
    /\ InPage
    /\ \E t, u \in DOMAIN tasks :
          /\ tasks[t].file # Nil
          /\ tasks[u].file # Nil
          /\ tasks[t].file[1].name = tasks[u].file[1].name
          /\ tasks[t].file[1].data # tasks[u].file[1].data
          /\ files[tasks[t].file[1].name] \in {tasks[t].file[1].data, tasks[u].file[1].data}
          /\ Cardinality(DOMAIN files) = 1

FetchErrorPrefixes ==
    {"ERROR::Can't create request: ", "ERROR::Can't make http request: ",
     "ERROR::Can't read http response body: "}

\* The process ends in this step with status 1 on a failed fetch: one error
\* line is printed, no task exists and no file is written.
FetchFailure ==
    /\ pc' = "exited"
    /\ exitStatus' = Ptr(1)
    /\ \E line \in {stdout'[Len(stdout')]} :
          /\ stdout' = Append(stdout, line)
          /\ line[1] \in FetchErrorPrefixes
          /\ line[Len(line)] = "\n"
    /\ bodyHTML' = Nil
    /\ tasks' = <<>>
    /\ files' = files

\* C16: the loop issues one GET at the top of an iteration and nowhere else;
\* the step either delivers a body to parse or ends the process with status 1
\* (FetchFailure), it never leads back to another fetch; a URL from which no
\* request can be made or sent always ends the process; after the exit the
\* process takes no step.
C16_FetchFatal ==
    [][/\ pc = "fetch" =>
             /\ fetches' = fetches + 1
             /\ tasks = <<>>
             /\ \/ (pc' = "parse" /\ bodyHTML' # Nil /\ exitStatus' = Nil /\ files' = files)
                \/ FetchFailure
       /\ pc # "fetch" => fetches' = fetches
       /\ (pc = "fetch" /\ (NewRequestFails(pageURL) \/ pageURL = EmptyString))
             => pc' = "exited"
       /\ pc # "exited"]_vars

\* The fetch of the second page failed in the construction of the request,
\* after the first page's items were written.
C16_Witness ==
    /\ pc = "exited"
    /\ exitStatus = Ptr(1)
    /\ fetches = 2
    /\ pageURL = BadURL
    /\ files # <<>>
    /\ tasks = <<>>
    /\ stdout = <<<<"ERROR::Can't create request: ", "missing protocol scheme", "\n">>>>

\* The tasks of the page that have not returned.
Pending == {t \in DOMAIN tasks : tasks[t].pc # "returned"}

\* C17: the counter is the number of item nodes before a task is started;
\* a task lowers it by one in the step in which it returns, with or without
\* an error, and nothing else lowers it, so that it counts the tasks that
\* have not returned and is never negative; the goroutines being scheduled,
\* the wait of the page loop returns.
C17_BarrierRelease ==
    /\ [](wg >= 0)
    /\ []((pc = "dispatch" /\ i = 1) =>
            /\ wg = Len(itemElementList)
            /\ \A t \in DOMAIN tasks : tasks[t].pc = "unstarted")
    /\ [](pc \in {"dispatch", "wait"} =>
            /\ Len(tasks) = Len(itemElementList)
            /\ wg = Cardinality(Pending))
    /\ [][/\ \A t \in DOMAIN tasks : Returns(t) => wg' = wg - 1
          /\ wg' < wg => \E t \in DOMAIN tasks : Returns(t)
          /\ (pc = "wait" /\ pc' # "wait") => (wg = 0 /\ AllReturned /\ pc' = "paginate")]_vars
    /\ (pc = "wait") ~> (pc = "paginate")

\* The wait returned on a page of two tasks, one of which returned an error
\* and the other none.
C17_Witness ==
    /\ pc = "paginate"
    /\ wg = 0
    /\ Len(tasks) = 2
    /\ \E t, u \in DOMAIN tasks : tasks[t].ret # Nil /\ tasks[u].ret = Nil
    /\ AllReturned

\* The page in work has a next-page anchor with an href.
HasNextLink ==
    /\ bodyHTML # Nil
    /\ bodyHTML.next # Nil
    /\ bodyHTML.next[1] # Nil

\* C18: the crawl is at the fetch of a page only with no page in work; it
\* turns to a fetch only from the page turn of a page with a next-page
\* anchor, all tasks of the page returned, and then the URL to fetch is the
\* href of that anchor; pageURL changes in no other step and main returns
\* only on a page without the anchor.  When no fetch, parse or item search
\* ends the process and a page without next-page anchor is reached, then,
\* the goroutines being scheduled, main returns.
C18_Termination ==
    /\ [](pc = "fetch" => (bodyHTML = Nil /\ pageHTML = Nil /\ tasks = <<>>))
    /\ [][/\ (pc # "fetch" /\ pc' = "fetch") =>
               /\ pc = "paginate"
               /\ AllReturned
               /\ bodyHTML.next # Nil
               /\ HasNextLink => pageURL' = bodyHTML.next[1][1]
               /\ fetches' = fetches
          /\ pageURL' # pageURL => (pc = "paginate" /\ pc' = "fetch")
          /\ pc = "fetch" => pc' \in {"parse", "exited"}
          /\ pc' = "done" => (pc = "paginate" /\ bodyHTML.next = Nil /\ fetches' = fetches)]_vars
    /\ ([](pc # "exited") /\ <>LastPage) => <>(pc = "done")

\* main returned after two pages, the second fetched from the href of the
\* first page's next-page anchor, every task of it having written its file.
C18_Witness ==
    /\ pc = "done"
    /\ exitStatus = Ptr(0)
    /\ fetches = 2
    /\ pageURL = NextURL
    /\ \A t \in DOMAIN tasks : tasks[t].file # Nil

\* The records the tasks of the page in work have written to the file name.
PageRecords(name) ==
    {tasks[u].file[1].data :
        u \in {v \in DOMAIN tasks : tasks[v].file # Nil /\ tasks[v].file[1].name = name}}

\* C19: when the wait of a page has returned, every file that a task of the
\* page wrote and that an earlier page had written holds a record that a
\* task of this page extracted: the record of the task when no other task
\* of the page has the id.
C19_LaterPageWins ==
    (pc \in {"paginate", "done"}) =>
        \A t \in DOMAIN tasks :
            (ItemOf(t) \in CompleteItems /\ DataFile(ItemID(ItemOf(t))) \in DOMAIN filesBefore)
                => /\ tasks[t].file # Nil
                   /\ tasks[t].file[1].name = DataFile(ItemID(ItemOf(t)))
                   /\ tasks[t].file[1].name \in DOMAIN files
                   /\ files[tasks[t].file[1].name] \in PageRecords(tasks[t].file[1].name)

\* After the wait of the second page the file of an id holds the record of
\* the second page's task, and held another record when the page was fetched.
C19_Witness ==
    /\ pc = "paginate"
    /\ fetches = 2
    /\ \E t \in DOMAIN tasks :
          /\ tasks[t].file # Nil
          /\ tasks[t].file[1].name \in DOMAIN filesBefore
          /\ filesBefore[tasks[t].file[1].name] # tasks[t].file[1].data
          /\ files[tasks[t].file[1].name] = tasks[t].file[1].data

====
